---- MODULE Spec2Model ----
\* Model of the operation-plan execution engine for updating cluster
\* environment variables (package fsm): the engine adapter, its retrying
\* operator and the state machine that drives a plan of phases through it.
EXTENDS Integers, Sequences, FiniteSets, TLC

VARIABLES
    plan,           \* the operation plan persisted in the state store
    changelog,      \* the plan changes persisted in the state store
    operation,      \* the state and message of the operation in the store
    progress,       \* the progress entry the running command wrote last
    pc,             \* the position of the state machine in its run
    cmd,            \* the command the state machine is running
    cur,            \* the phase the state machine is working on
    fsmErr,         \* the error of the run, handed to Complete
    invoked,        \* the executor calls of the run, in order
    runStart,       \* the phase states when the run started
    completeResult, \* how the last call of Complete ended
    rollbackErrs,   \* the phases whose Rollback failed in the run
    forced,         \* a command has run with Force against the plan
    rt,             \* the retry loop of the call in flight
    ctxCancelled,   \* the caller's context of the call in flight is cancelled
    rtChange,       \* the plan change of the call in flight
    warned,         \* the pre-exec hook logged a failed progress write
    runnerCalls,    \* the calls of the remote runner, in order
    runReturns,     \* the calls of RunCommand with what they returned
    localPackages,  \* the packages of the installer's local store
    localApps,      \* the applications of the installer's local store
    pullResult,     \* the last pull into the local store and its result
    service,        \* the service getAddresses was called with last
    nodeList,       \* the nodes getAddresses was called with last
    addresses,      \* what getAddresses returned last
    kube,           \* the operator's Kubernetes client handle and its callers
    discovery,      \* the discovery publishing loop of the autoscaler
    syncCall,       \* the last call of SyncApp and what it did
    installer       \* the temporary directories and readers of GetAppInstaller

fsmVars == <<pc, cmd, cur, fsmErr, invoked, runStart, completeResult, rollbackErrs, forced,
             warned>>
storeVars == <<plan, changelog, operation, progress>>
retryVars == <<rt, ctxCancelled, rtChange>>
engineVars == <<storeVars, fsmVars, retryVars>>
runVars == <<runnerCalls, runReturns>>
pullVars == <<localPackages, localApps, pullResult>>
addrVars == <<service, nodeList, addresses>>
collabVars == <<runVars, pullVars, addrVars, kube, discovery, syncCall, installer>>
vars == <<plan, changelog, operation, progress, pc, cmd, cur, fsmErr, invoked,
          runStart, completeResult, rollbackErrs, forced, rt, ctxCancelled,
          rtChange, warned, runnerCalls, runReturns, localPackages, localApps,
          pullResult, service, nodeList, addresses, kube, discovery, syncCall,
          installer>>

----------------------------------------------------------------------------
\* Bounds

\* the calls of GetKubeClient
MaxKubeCalls == 4

\* the ticks of the discovery ticker
MaxTicks == 3

\* the calls of GetAppInstaller
MaxInstallerCalls == 2

\* the plan changes the store holds at most
MaxChanges == 6
\* the calls of the store one behaviour of the store describes at most
MaxAttempts == 3
\* the plan changes the store holds at most when ChangePhaseState is followed
\* call by call
MaxRetryChanges == 3
\* the backoff intervals of one retry loop that may be shorter than a tick
\* of the clock
MaxShortSleeps == 3
\* the top-level phases of the plans the engine is called with directly
MaxPhases == 4
\* the calls of RunCommand
MaxRuns == 2
\* the locators one pull is asked for
MaxLocators == 2
\* the ports of a service
MaxPorts == 2
\* the nodes of the cluster
MaxNodes == 2

----------------------------------------------------------------------------
\* Phase states, errors and identifiers

Unstarted == "unstarted"
InProgress == "in_progress"
Completed == "completed"
Failed == "failed"
PhaseStates == {Unstarted, InProgress, Completed, Failed}

Nil == "<nil>"
Ok == "ok"
ErrConnRefused == "connection refused"
ErrAccessDenied == "access denied"
ErrNotFound == "not found"
ErrBadParameter == "unknown phase"
ErrPrerequisites == "prerequisites are not completed"
ErrExecute == "phase execution failed"

\* the phase kinds of libphase
Masters == <<"masters">>
Nodes == <<"nodes">>

\* phase identifiers are paths, a sequence of path elements
PA == <<"masters", "a">>
PB == <<"masters", "b">>
PC == <<"nodes", "c">>
PM == <<"masters">>
PM1 == <<"masters", "node-1">>
PM2 == <<"masters", "node-2">>
PN == <<"nodes">>
PNG == <<"nodes", "group">>
PN3 == <<"nodes", "group", "node-3">>
PX == <<"other">>
PMissing == <<"missing">>

NoPhase == <<>>

\* three top-level phases, C requires A and B
FlatPlan ==
    [phases |-> <<PA, PB, PC>>,
     sub |-> [p \in {PA, PB, PC} |-> <<>>],
     requires |-> [p \in {PA, PB, PC} |-> IF p = PC THEN {PA, PB} ELSE {}],
     step |-> [p \in {PA, PB, PC} |-> IF p = PA THEN 1 ELSE IF p = PB THEN 2 ELSE 3],
     state |-> [p \in {PA, PB, PC} |-> Unstarted]]

\* sub-phases three levels deep, nodes require masters, node-2 requires node-1
NestedPlan ==
    [phases |-> <<PM, PN>>,
     sub |-> [p \in {PM, PM1, PM2, PN, PNG, PN3} |->
                 IF p = PM THEN <<PM1, PM2>>
                 ELSE IF p = PN THEN <<PNG>>
                 ELSE IF p = PNG THEN <<PN3>>
                 ELSE <<>>],
     requires |-> [p \in {PM, PM1, PM2, PN, PNG, PN3} |->
                 IF p = PM2 THEN {PM1}
                 ELSE IF p = PN THEN {PM}
                 ELSE {}],
     step |-> [p \in {PM, PM1, PM2, PN, PNG, PN3} |->
                 IF p \in {PM, PM1} THEN 1
                 ELSE IF p = PM2 THEN 2
                 ELSE 3],
     state |-> [p \in {PM1, PM2, PN3} |-> Unstarted]]

\* a phase of a kind the engine has no executor for
UnknownPlan ==
    [phases |-> <<PA, PX>>,
     sub |-> [p \in {PA, PX} |-> <<>>],
     requires |-> [p \in {PA, PX} |-> IF p = PX THEN {PA} ELSE {}],
     step |-> [p \in {PA, PX} |-> IF p = PA THEN 1 ELSE 2],
     state |-> [p \in {PA, PX} |-> Unstarted]]

Plans == {FlatPlan, NestedPlan, UnknownPlan}

PhaseName(i) == <<"masters", ToString(i)>>

\* n top-level phases without sub-phases, the i-th at step i
NPhasePlan(n) ==
    LET ids == {PhaseName(i) : i \in 1..n}
    IN  [phases |-> [i \in 1..n |-> PhaseName(i)],
         sub |-> [p \in ids |-> <<>>],
         requires |-> [p \in ids |-> {}],
         step |-> [p \in ids |-> CHOOSE i \in 1..n : PhaseName(i) = p],
         state |-> [p \in ids |-> Unstarted]]

\* the plans the engine is called with directly, the empty plan among them
EnginePlans == Plans \cup {NPhasePlan(n) : n \in 0..MaxPhases}

----------------------------------------------------------------------------
\* The plan and phase model

AllPhases(p) == DOMAIN p.sub

RECURSIVE Leaves(_, _)
Leaves(p, id) ==
    IF p.sub[id] = <<>> THEN {id}
    ELSE UNION {Leaves(p, p.sub[id][i]) : i \in 1..Len(p.sub[id])}

PlanLeaves(p) == UNION {Leaves(p, p.phases[i]) : i \in 1..Len(p.phases)}

\* the state of a phase: its own when it is a leaf, else the aggregate of
\* the states of its sub-phases
RECURSIVE PhaseState(_, _)
PhaseState(p, id) ==
    IF p.sub[id] = <<>> THEN p.state[id]
    ELSE LET ss == {PhaseState(p, p.sub[id][i]) : i \in 1..Len(p.sub[id])}
         IN  IF ss = {Completed} THEN Completed
             ELSE IF ss = {Unstarted} THEN Unstarted
             ELSE IF Failed \in ss THEN Failed
             ELSE InProgress

FindPhase(p, id) == IF id \in AllPhases(p) THEN id ELSE NoPhase

\* only the phases without sub-phases are looked at
IsCompleted_TopLevelOnly(p) ==
    \A i \in 1..Len(p.phases) :
        p.sub[p.phases[i]] = <<>> => p.state[p.phases[i]] = Completed

IsCompleted(p) ==
    \A i \in 1..Len(p.phases) : PhaseState(p, p.phases[i]) = Completed

\* the phases nested in a phase, at any depth
RECURSIVE Descendants(_, _)
Descendants(p, id) ==
    UNION {{p.sub[id][i]} \cup Descendants(p, p.sub[id][i]) : i \in 1..Len(p.sub[id])}

\* the phases a phase is nested in
Ancestors(p, id) == {q \in AllPhases(p) : id \in Descendants(p, q)}

\* what has to be Completed before a phase may run: its Requires and the
\* Requires of the phases it is nested in
EffectiveRequires(p, id) ==
    UNION {p.requires[q] : q \in {id} \cup Ancestors(p, id)}

PrerequisitesComplete(p, id) ==
    \A r \in EffectiveRequires(p, id) : PhaseState(p, r) = Completed

\* one phase (transitively, through sub-phases) has to wait for another
DependsOn(p, m, l) ==
    \E r \in EffectiveRequires(p, m) : l \in Leaves(p, r)

Max(a, b) == IF a > b THEN a ELSE b

HasPrefix(id, prefix) ==
    /\ Len(id) >= Len(prefix)
    /\ SubSeq(id, 1, Len(prefix)) = prefix

----------------------------------------------------------------------------
\* The retrying operator

OperationKey == [siteDomain |-> "example.com", operationID |-> "op-1"]

\* what one call of the store returns
Outcomes == {Ok, ErrConnRefused, ErrAccessDenied}

IsConnectionRefusedError(err) == err = ErrConnRefused

\* every error ends the loop
RetryClassify_NoRetry(err) ==
    IF err = Ok THEN "done" ELSE "permanent"

\* every error is retried
RetryClassify_AllRetried(err) ==
    IF err = Ok THEN "done" ELSE "retry"

\* what the retry loop does with the result of one call of fn
RetryClassify(err) ==
    IF err = Ok THEN "done"
    ELSE IF IsConnectionRefusedError(err) THEN "retry"
    ELSE "permanent"

\* the behaviours of the store during one retry loop: what each call returns,
\* the last call being the last one the ceiling leaves time for
StoreBehaviours == UNION {[1..n -> Outcomes] : n \in 1..MaxAttempts}

RECURSIVE RetryFrom(_, _)
RetryFrom(outs, i) ==
    LET c == RetryClassify(outs[i])
    IN  IF c = "done" THEN [err |-> Nil, calls |-> i]
        ELSE IF c = "permanent" THEN [err |-> outs[i], calls |-> i]
        ELSE IF i = Len(outs) THEN [err |-> outs[i], calls |-> i]
        ELSE RetryFrom(outs, i + 1)

\* retry(fn) against a store that behaves as outs: the error returned and
\* the number of calls of fn
retry(outs) == RetryFrom(outs, 1)

\* the errors (or Nil) a call through the retrying operator returns
StoreResults == {retry(outs).err : outs \in StoreBehaviours}

----------------------------------------------------------------------------
\* The engine

\* the plan as it was created, without the changes applied since
GetPlan_AsCreated == [plan EXCEPT !.state = [l \in DOMAIN plan.state |-> Unstarted]]

\* the most up-to-date plan of the operation
GetPlan == plan

\* the new state is derived from the error instead of taken from the change
PlanChange_StateFromError(phase, state, err) ==
    [clusterName |-> OperationKey.siteDomain,
     operationID |-> OperationKey.operationID,
     phaseID |-> phase,
     newState |-> IF err = Nil THEN Completed ELSE Failed,
     error |-> err]

\* the change is recorded under the key of no operation
PlanChange_NoOperation(phase, state, err) ==
    [clusterName |-> "",
     operationID |-> "",
     phaseID |-> phase,
     newState |-> state,
     error |-> err]

PlanChange(phase, state, err) ==
    [clusterName |-> OperationKey.siteDomain,
     operationID |-> OperationKey.operationID,
     phaseID |-> phase,
     newState |-> state,
     error |-> err]

\* the store appends the change and applies it to the plan
CreateOperationPlanChange(change) ==
    /\ changelog' = Append(changelog, change)
    /\ plan' = [plan EXCEPT !.state[change.phaseID] = change.newState]

\* the multiplication is done before the division
Completion_MultiplyFirst(p, id) == (100 * p.step[id]) \div Max(Len(p.phases), 1)

Completion(p, id) == (100 \div Max(Len(p.phases), 1)) * p.step[id]

ProgressEntry(p, id) ==
    [siteDomain |-> OperationKey.siteDomain,
     operationID |-> OperationKey.operationID,
     completion |-> Completion(p, id),
     step |-> p.step[id],
     state |-> InProgress]

NoProgress == [siteDomain |-> "", operationID |-> "", completion |-> 0,
               step |-> 0, state |-> ""]

\* every phase identifier resolves to the sync executor
configToExecutor_AnyPhase(id) == "sync"

\* the executor the engine resolves a phase to
configToExecutor(id) ==
    IF HasPrefix(id, Masters) \/ HasPrefix(id, Nodes) THEN "sync"
    ELSE ErrBadParameter

----------------------------------------------------------------------------
\* The state machine

NoCmd == [kind |-> "none", phase |-> NoPhase, force |-> FALSE]

\* the phases a command may run: "execute all" runs Unstarted phases, a
\* command for one phase runs what is Unstarted or Failed in it
Candidates(p, c) ==
    IF c.kind = "all"
    THEN {l \in PlanLeaves(p) : p.state[l] = Unstarted}
    ELSE {l \in Leaves(p, c.phase) : p.state[l] \in {Unstarted, Failed}}

\* the prerequisites are not looked at
Eligible_NoPrerequisites(p, c) == Candidates(p, c)

\* the candidates that may run now
Eligible(p, c) ==
    {l \in Candidates(p, c) : c.force \/ PrerequisitesComplete(p, l)}

StartRun(c) ==
    /\ pc = "idle"
    /\ pc' = "select"
    /\ cmd' = c
    /\ forced' = (forced \/ c.force)
    /\ cur' = NoPhase
    /\ fsmErr' = Nil
    /\ invoked' = <<>>
    /\ runStart' = plan.state
    /\ completeResult' = "none"
    /\ rollbackErrs' = {}
    /\ progress' = NoProgress
    /\ warned' = FALSE
    /\ UNCHANGED <<plan, changelog, operation, retryVars, collabVars>>

ExecutePlan ==
    /\ pc = "idle"
    /\ StartRun([kind |-> "all", phase |-> NoPhase, force |-> FALSE])

ExecutePhase ==
    /\ pc = "idle"
    /\ \E id \in AllPhases(plan) \cup {PMissing}, force \in BOOLEAN :
        StartRun([kind |-> "phase", phase |-> id, force |-> force])

\* read the plan and pick the next phase to run
SelectPhase ==
    /\ pc = "select"
    /\ \E e \in StoreResults :
        LET p == GetPlan
        IN  IF e # Nil
            THEN /\ fsmErr' = e
                 /\ pc' = "complete"
                 /\ cur' = NoPhase
            ELSE IF cmd.kind = "phase" /\ FindPhase(p, cmd.phase) = NoPhase
            THEN /\ fsmErr' = ErrNotFound
                 /\ pc' = "complete"
                 /\ cur' = NoPhase
            ELSE IF Eligible(p, cmd) = {}
            THEN /\ fsmErr' = IF cmd.kind = "phase" /\ Candidates(p, cmd) # {}
                              THEN ErrPrerequisites ELSE fsmErr
                 /\ pc' = "complete"
                 /\ cur' = NoPhase
            ELSE /\ Len(changelog) + 2 <= MaxChanges
                 /\ \E l \in Eligible(p, cmd) : cur' = l
                 /\ fsmErr' = fsmErr
                 /\ pc' = "preexec"
    /\ UNCHANGED <<forced, warned, cmd, invoked, runStart, completeResult, rollbackErrs,
                   storeVars, retryVars, collabVars>>

\* the error of the progress write is returned to the state machine
UpdateProgressReturn_WriteError(e) == e

\* what UpdateProgress returns when the write of the progress entry ended
\* with e: the error is logged and not returned
UpdateProgressReturn(e) == Nil

\* the pre-exec hook of the state machine
UpdateProgress ==
    /\ pc = "preexec"
    /\ \E e1 \in StoreResults, e2 \in StoreResults :
        LET p == GetPlan
        IN  IF e1 # Nil
            THEN /\ fsmErr' = e1
                 /\ pc' = "complete"
                 /\ progress' = progress
                 /\ warned' = FALSE
            ELSE IF FindPhase(p, cur) = NoPhase
            THEN /\ fsmErr' = ErrNotFound
                 /\ pc' = "complete"
                 /\ progress' = progress
                 /\ warned' = FALSE
            ELSE /\ progress' = IF e2 = Nil
                                THEN ProgressEntry(p, cur) ELSE progress
                 /\ warned' = (e2 # Nil)
                 /\ IF UpdateProgressReturn(e2) = Nil
                    THEN /\ fsmErr' = fsmErr
                         /\ pc' = "getexec"
                    ELSE /\ fsmErr' = UpdateProgressReturn(e2)
                         /\ pc' = "complete"
    /\ UNCHANGED <<forced, plan, changelog, operation, cmd, cur, invoked, runStart,
                   completeResult, rollbackErrs, retryVars, collabVars>>

\* the state machine calls the pre-exec hook for a phase
PreExec ==
    /\ pc \in {"idle", "start", "complete"}
    /\ \E id \in AllPhases(plan) \cup {PMissing} : cur' = id
    /\ pc' = "preexec"
    /\ fsmErr' = Nil
    /\ UNCHANGED <<forced, warned, cmd, invoked, runStart, completeResult,
                   rollbackErrs, storeVars, retryVars, collabVars>>

GetExecutor ==
    /\ pc = "getexec"
    /\ IF configToExecutor(cur) = ErrBadParameter
       THEN /\ fsmErr' = ErrBadParameter
            /\ pc' = "complete"
       ELSE /\ fsmErr' = fsmErr
            /\ pc' = "start"
    /\ UNCHANGED <<forced, warned, cmd, cur, invoked, runStart, completeResult, rollbackErrs,
                   storeVars, retryVars, collabVars>>

\* the error of the store is dropped and the state machine goes on
ChangePhaseState_ErrorDropped(change, e, next, nextOnErr) ==
    IF e = Nil
    THEN /\ CreateOperationPlanChange(change)
         /\ pc' = next
         /\ UNCHANGED fsmErr
    ELSE /\ pc' = next
         /\ UNCHANGED <<plan, changelog, fsmErr>>

\* ChangePhaseState as the state machine calls it, e the error (or Nil) of
\* the retrying call of the store
ChangePhaseState(change, e, next, nextOnErr) ==
    IF e = Nil
    THEN /\ CreateOperationPlanChange(change)
         /\ pc' = next
         /\ UNCHANGED fsmErr
    ELSE /\ fsmErr' = e
         /\ pc' = nextOnErr
         /\ UNCHANGED <<plan, changelog>>

StartPhase ==
    /\ pc = "start"
    /\ \E e \in StoreResults :
        ChangePhaseState(PlanChange(cur, InProgress, Nil), e, "execute", "complete")
    /\ UNCHANGED <<forced, warned, operation, progress, cmd, cur, invoked, runStart,
                   completeResult, rollbackErrs, retryVars, collabVars>>

Execute ==
    /\ pc = "execute"
    /\ invoked' = Append(invoked, [phase |-> cur, op |-> "Execute"])
    /\ \E res \in {Nil, ErrExecute} : fsmErr' = res
    /\ pc' = "finish"
    /\ UNCHANGED <<forced, warned, cmd, cur, runStart, completeResult, rollbackErrs,
                   storeVars, retryVars, collabVars>>

FinishPhase ==
    /\ pc = "finish"
    /\ \E e \in StoreResults :
        IF fsmErr = Nil
        THEN ChangePhaseState(PlanChange(cur, Completed, Nil), e, "select", "complete")
        ELSE ChangePhaseState(PlanChange(cur, Failed, fsmErr), e, "complete", "complete")
    /\ UNCHANGED <<forced, warned, operation, progress, cmd, cur, invoked, runStart,
                   completeResult, rollbackErrs, retryVars, collabVars>>

\* the plan is taken for completed when it is not
CompleteOperationState_Inverted(p, err, e1, e2) ==
    IF e1 # Nil
    THEN [result |-> "error", operation |-> operation]
    ELSE IF ~IsCompleted(p)
    THEN IF e2 = Nil
         THEN [result |-> "ok", operation |-> [state |-> Completed, message |-> ""]]
         ELSE [result |-> "error", operation |-> operation]
    ELSE IF err = Nil
    THEN [result |-> "panic", operation |-> operation]
    ELSE IF e2 = Nil
         THEN [result |-> "ok", operation |-> [state |-> Failed, message |-> err]]
         ELSE [result |-> "error", operation |-> operation]

\* what Complete(err) makes of the operation and how it ends, e1 the error
\* (or Nil) of reading the plan and e2 that of writing the operation state;
\* the message of a nil error cannot be taken: the call panics
CompleteOperationState(p, err, e1, e2) ==
    IF e1 # Nil
    THEN [result |-> "error", operation |-> operation]
    ELSE IF IsCompleted(p)
    THEN IF e2 = Nil
         THEN [result |-> "ok", operation |-> [state |-> Completed, message |-> ""]]
         ELSE [result |-> "error", operation |-> operation]
    ELSE IF err = Nil
    THEN [result |-> "panic", operation |-> operation]
    ELSE IF e2 = Nil
         THEN [result |-> "ok", operation |-> [state |-> Failed, message |-> err]]
         ELSE [result |-> "error", operation |-> operation]

\* Complete(fsmErr): mark the operation completed or failed
Complete ==
    /\ pc = "complete"
    /\ \E e1 \in StoreResults, e2 \in StoreResults :
        LET c == CompleteOperationState(GetPlan, fsmErr, e1, e2)
        IN  /\ operation' = c.operation
            /\ completeResult' = c.result
    /\ pc' = "done"
    /\ UNCHANGED <<forced, warned, plan, changelog, progress, cmd, cur, fsmErr, invoked,
                   runStart, rollbackErrs, retryVars, collabVars>>

\* the Completed phases the rollback has still to visit
RollbackRest == {l \in DOMAIN runStart : runStart[l] = Completed}
                \ {invoked[i].phase : i \in 1..Len(invoked)}

Rollback ==
    /\ pc = "idle"
    /\ \E e \in StoreResults :
        IF e = Nil
        THEN /\ pc' = "rollback"
             /\ fsmErr' = Nil
             /\ runStart' = GetPlan.state
        ELSE /\ pc' = "done"
             /\ fsmErr' = e
             /\ runStart' = runStart
    /\ cmd' = [kind |-> "rollback", phase |-> NoPhase, force |-> FALSE]
    /\ cur' = NoPhase
    /\ invoked' = <<>>
    /\ completeResult' = "none"
    /\ rollbackErrs' = {}
    /\ progress' = NoProgress
    /\ warned' = FALSE
    /\ UNCHANGED <<forced, plan, changelog, operation, retryVars, collabVars>>

\* the rollback visits the phases in the order they were executed in
RollbackNext_Forward == {l \in RollbackRest :
                    \A m \in RollbackRest \ {l} : ~DependsOn(plan, l, m)}

\* the phases the rollback may visit next: those no phase still to visit
\* depends on
RollbackNext == {l \in RollbackRest :
                    \A m \in RollbackRest \ {l} : ~DependsOn(plan, m, l)}

RollbackPhase ==
    /\ pc = "rollback"
    /\ RollbackRest # {}
    /\ \E l \in RollbackNext, res \in {Nil, ErrExecute} :
        /\ cur' = l
        /\ invoked' = Append(invoked, [phase |-> l, op |-> "Rollback"])
        /\ rollbackErrs' = IF res = Nil THEN rollbackErrs ELSE rollbackErrs \cup {l}
    /\ UNCHANGED <<forced, warned, pc, cmd, fsmErr, runStart, completeResult, storeVars, retryVars, collabVars>>

RollbackDone ==
    /\ pc = "rollback"
    /\ RollbackRest = {}
    /\ pc' = "done"
    /\ UNCHANGED <<forced, warned, cmd, cur, fsmErr, invoked, runStart, completeResult,
                   rollbackErrs, storeVars, retryVars, collabVars>>

\* the command returns to its caller
Return ==
    /\ pc = "done"
    /\ pc' = "idle"
    /\ cmd' = NoCmd
    /\ cur' = NoPhase
    /\ fsmErr' = Nil
    /\ invoked' = <<>>
    /\ runStart' = plan.state
    /\ completeResult' = "none"
    /\ rollbackErrs' = {}
    /\ progress' = NoProgress
    /\ warned' = FALSE
    /\ UNCHANGED <<forced, plan, changelog, operation, retryVars, collabVars>>

----------------------------------------------------------------------------
\* ChangePhaseState call by call: the retry loop around the call of the
\* store, its clock and the context of the caller

\* the ceiling is an hour
maxRetryElapsedTime_Hour == 12 * 5

\* the ceiling of the retry loop, in ticks of the clock (minutes)
maxRetryElapsedTime == 5

RtIdle == [st |-> "idle", calls |-> 0, elapsed |-> 0, hist |-> <<>>, err |-> Nil]

Min(a, b) == IF a < b THEN a ELSE b

\* the changes the state machine asks for: Unstarted to InProgress,
\* InProgress to Completed or Failed, Failed to InProgress
StateChanges(p) ==
    {PlanChange(l, InProgress, Nil) :
        l \in {x \in PlanLeaves(p) : p.state[x] \in {Unstarted, Failed}}}
    \cup {PlanChange(l, Completed, Nil) :
        l \in {x \in PlanLeaves(p) : p.state[x] = InProgress}}
    \cup {PlanChange(l, Failed, ErrExecute) :
        l \in {x \in PlanLeaves(p) : p.state[x] = InProgress}}

\* ChangePhaseState(ctx, change) is called: retry starts its loop with a
\* context of its own that expires after maxRetryElapsedTime
ChangePhaseStateCall ==
    /\ rt.st \in {"idle", "done"}
    /\ Len(changelog) < MaxRetryChanges
    /\ \E change \in StateChanges(plan) : rtChange' = change
    /\ rt' = [RtIdle EXCEPT !.st = "call"]
    /\ ctxCancelled' = FALSE
    /\ UNCHANGED <<storeVars, fsmVars, collabVars>>

\* one call of fn by the retry loop: the store applies the change or fails,
\* d the ticks the call takes
RetryAttempt ==
    /\ rt.st = "call"
    /\ \E out \in Outcomes, d \in 0..1 :
        LET now == Min(rt.elapsed + d, maxRetryElapsedTime)
            c == RetryClassify(out)
            r == [rt EXCEPT !.calls = rt.calls + 1,
                            !.elapsed = now,
                            !.hist = Append(rt.hist, out)]
        IN  IF c = "done"
            THEN /\ CreateOperationPlanChange(rtChange)
                 /\ rt' = [r EXCEPT !.st = "done", !.err = Nil]
            ELSE /\ UNCHANGED <<plan, changelog>>
                 /\ IF c = "permanent" \/ now >= maxRetryElapsedTime
                    THEN rt' = [r EXCEPT !.st = "done", !.err = out]
                    ELSE rt' = [r EXCEPT !.st = "sleep", !.err = out]
    /\ UNCHANGED <<operation, progress, fsmVars, collabVars, ctxCancelled, rtChange>>

\* the retry loop waits for the backoff interval d or for its context to
\* expire, whichever comes first
RetryBackoff ==
    /\ rt.st = "sleep"
    /\ \E d \in 0..1 :
        /\ d = 0 => rt.calls <= MaxShortSleeps
        /\ LET now == Min(rt.elapsed + d, maxRetryElapsedTime)
           IN  rt' = [rt EXCEPT !.elapsed = now,
                                !.st = IF now >= maxRetryElapsedTime
                                       THEN "done" ELSE "call"]
    /\ UNCHANGED <<storeVars, fsmVars, collabVars, ctxCancelled, rtChange>>

\* the caller cancels the context it passed to ChangePhaseState
CancelCtx ==
    /\ rt.st \in {"call", "sleep"}
    /\ ~ctxCancelled
    /\ ctxCancelled' = TRUE
    /\ UNCHANGED <<storeVars, fsmVars, collabVars, rt, rtChange>>

----------------------------------------------------------------------------
\* RunCommand: a phase executed on another server through the remote runner

Servers == {"node-1", "node-2"}
RunPhaseIDs == {"/masters/node-1", "/nodes/node-2", ""}
ErrRun == "remote command failed"

\* --force is passed whatever the parameters say
RunCommandArgs_ForceAlways(params) ==
    <<"system", "envars", "--phase", params.PhaseID, "--force">>

\* the command line RunCommand builds for the runner
RunCommandArgs(params) ==
    LET args == <<"system", "envars", "--phase", params.PhaseID>>
    IN  IF params.Force THEN Append(args, "--force") ELSE args

\* RunCommand(ctx, runner, server, params), res what the runner returns
RunCommand ==
    /\ Len(runReturns) < MaxRuns
    /\ \E server \in Servers, params \in [PhaseID : RunPhaseIDs, Force : BOOLEAN],
          res \in {Nil, ErrRun} :
        /\ runnerCalls' = Append(runnerCalls,
                                 [server |-> server, args |-> RunCommandArgs(params)])
        /\ runReturns' = Append(runReturns,
                                [server |-> server, params |-> params,
                                 runner |-> res, err |-> res])
    /\ UNCHANGED <<engineVars, pullVars, addrVars, kube, discovery, syncCall, installer>>

----------------------------------------------------------------------------
\* The installer: pulling the dependencies of an application from the
\* remote package and application services into the local ones

ErrAlreadyExists == "already exists"

Locators == {"gravitational.io/gravity:1.0.0", "gravitational.io/dns-app:0.1.0",
             "example.com/app:2.0.0"}

\* what the remote services hold
RemotePackages == {"gravitational.io/gravity:1.0.0", "gravitational.io/dns-app:0.1.0"}

LocatorLists == UNION {[1..n -> Locators] : n \in 0..MaxLocators}

\* remotePackages.ReadPackage(locator)
ReadPackage(locator) == IF locator \in RemotePackages THEN Nil ELSE ErrNotFound

\* CreatePackage or CreateAppWithManifest on a local service that holds
\* local; fails is whether the service fails for a reason of its own
CreateLocal(local, locator, fails) ==
    IF fails THEN [err |-> ErrAccessDenied, local |-> local]
    ELSE IF locator \in local THEN [err |-> ErrAlreadyExists, local |-> local]
    ELSE [err |-> Nil, local |-> local \cup {locator}]

\* pullPackages from the i-th locator on, failAt the locator (0 for none) at
\* which the local service fails for a reason of its own
RECURSIVE pullPackagesFrom(_, _, _, _)
pullPackagesFrom(locators, i, local, failAt) ==
    IF i > Len(locators) THEN [err |-> Nil, local |-> local]
    ELSE IF ReadPackage(locators[i]) # Nil
    THEN [err |-> ReadPackage(locators[i]), local |-> local]
    ELSE LET c == CreateLocal(local, locators[i], i = failAt)
         IN  IF c.err # Nil
             THEN [err |-> c.err, local |-> c.local]
             ELSE pullPackagesFrom(locators, i + 1, c.local, failAt)

RECURSIVE pullApplicationsFrom(_, _, _, _)
pullApplicationsFrom(locators, i, local, failAt) ==
    IF i > Len(locators) THEN [err |-> Nil, local |-> local]
    ELSE IF ReadPackage(locators[i]) # Nil
    THEN [err |-> ReadPackage(locators[i]), local |-> local]
    ELSE LET c == CreateLocal(local, locators[i], i = failAt)
         IN  IF c.err # Nil /\ c.err # ErrAlreadyExists
             THEN [err |-> c.err, local |-> c.local]
             ELSE pullApplicationsFrom(locators, i + 1, c.local, failAt)

pullPackages ==
    \E locators \in LocatorLists, failAt \in 0..MaxLocators :
        LET r == pullPackagesFrom(locators, 1, localPackages, failAt)
        IN  /\ localPackages' = r.local
            /\ pullResult' = [fn |-> "pullPackages", locators |-> locators,
                              failAt |-> failAt, err |-> r.err]
            /\ UNCHANGED <<localApps, engineVars, runVars, addrVars, kube, discovery, syncCall,
                            installer>>

pullApplications ==
    \E locators \in LocatorLists, failAt \in 0..MaxLocators :
        LET r == pullApplicationsFrom(locators, 1, localApps, failAt)
        IN  /\ localApps' = r.local
            /\ pullResult' = [fn |-> "pullApplications", locators |-> locators,
                              failAt |-> failAt, err |-> r.err]
            /\ UNCHANGED <<localPackages, engineVars, runVars, addrVars, kube, discovery,
                            syncCall, installer>>

NoPull == [fn |-> "none", locators |-> <<>>, failAt |-> 0, err |-> Nil]
----------------------------------------------------------------------------
\* The endpoints of an application: the addresses a service is reached at

KubeNodeExternalIP == "ExternalIP"
KubeNodeInternalIP == "InternalIP"

NoService == [ingress |-> <<>>, ports |-> <<>>, clusterIP |-> ""]

\* the ingresses of the load balancer of a service
Ingresses == {<<>>,
              <<[hostname |-> "lb-1.example.com"]>>,
              <<[hostname |-> "lb-1.example.com"], [hostname |-> "lb-2.example.com"]>>}

\* the ports of a service; a node port of 0 is no node port
ServicePorts == [port : {80, 443}, nodePort : {0, 30080}]

Services ==
    [ingress : Ingresses,
     ports : UNION {[1..n -> ServicePorts] : n \in 0..MaxPorts},
     clusterIP : {"10.100.0.1"}]

\* the addresses of a node
NodeAddresses ==
    {<<>>,
     <<[type |-> "Hostname", address |-> "node-1"]>>,
     <<[type |-> KubeNodeInternalIP, address |-> "10.0.0.1"]>>,
     <<[type |-> KubeNodeInternalIP, address |-> "10.0.0.2"],
       [type |-> KubeNodeExternalIP, address |-> "192.0.2.2"]>>}

NodeLists == UNION {[1..n -> NodeAddresses] : n \in 0..MaxNodes}

\* fmt.Sprintf("%v:%v", host, port)
FormatAddress(host, port) == host \o ":" \o ToString(port)

\* an address for every host and every port, host by host
AddressList(hosts, ports) ==
    [k \in 1..(Len(hosts) * Len(ports)) |->
        FormatAddress(hosts[((k - 1) \div Len(ports)) + 1],
                      ports[((k - 1) % Len(ports)) + 1])]

\* the addresses of a type of the nodes, node by node
RECURSIVE NodeIPs(_, _)
NodeIPs(nodes, type) ==
    IF nodes = <<>> THEN <<>>
    ELSE LET as == SelectSeq(Head(nodes), LAMBDA a : a.type = type)
         IN  [i \in 1..Len(as) |-> as[i].address] \o NodeIPs(Tail(nodes), type)

\* the internal addresses are taken before the external ones
PreferredNodeIPs_InternalFirst(externalIPs, internalIPs) ==
    IF Len(internalIPs) > 0 THEN internalIPs ELSE externalIPs

\* the node addresses a node port is reached at: the external ones if there
\* are any, else the internal ones
PreferredNodeIPs(externalIPs, internalIPs) ==
    IF Len(externalIPs) > 0 THEN externalIPs ELSE internalIPs

getAddresses(svc, nodes) ==
    LET ports == [i \in 1..Len(svc.ports) |-> svc.ports[i].port]
        exposed == SelectSeq(svc.ports, LAMBDA p : p.nodePort # 0)
        nodePorts == [i \in 1..Len(exposed) |-> exposed[i].nodePort]
        ips == PreferredNodeIPs(NodeIPs(nodes, KubeNodeExternalIP),
                                NodeIPs(nodes, KubeNodeInternalIP))
    IN  IF Len(svc.ingress) > 0
        THEN AddressList([i \in 1..Len(svc.ingress) |-> svc.ingress[i].hostname], ports)
        ELSE IF Len(nodePorts) > 0 /\ Len(ips) > 0
        THEN AddressList(ips, nodePorts)
        ELSE AddressList(<<svc.clusterIP>>, ports)

\* GetApplicationEndpoints asks for the addresses of a service
ServiceAddresses ==
    /\ service = NoService
    /\ \E svc \in Services, nodes \in NodeLists :
        /\ service' = svc
        /\ nodeList' = nodes
        /\ addresses' = getAddresses(svc, nodes)
    /\ UNCHANGED <<engineVars, runVars, pullVars, kube, discovery, syncCall, installer>>

\* the state after construction, whatever the plan
----------------------------------------------------------------------------
\* Operator.GetKubeClient: the client handle created on first use

\* the callers of GetApplicationEndpoints that run at the same time
Callers == {"caller-1", "caller-2"}

NoCaller == "unlocked"

NoClient == 0

ErrKube == "failed to create kubernetes client"

\* a caller outside of GetKubeClient
CallerIdle == [pc |-> "idle", seen |-> NoClient, client |-> NoClient, attempted |-> FALSE,
               ret |-> NoClient, err |-> Nil]

\* kubeMutex unlocked, kubeClient nil
NoKube == [mutex |-> NoCaller, client |-> NoClient, callers |-> [c \in Callers |-> CallerIdle],
           created |-> <<>>, attempts |-> 0, calls |-> 0, returns |-> <<>>]

MutexFree_Unguarded(holder) == TRUE

\* Lock of kubeMutex goes through when nobody holds it
MutexFree(holder) == holder = NoCaller

\* o.kubeMutex.Lock()
GetKubeClientLock(c) ==
    /\ kube.callers[c].pc = "idle"
    /\ kube.calls < MaxKubeCalls
    /\ MutexFree(kube.mutex)
    /\ kube' = [kube EXCEPT !.mutex = c, !.calls = @ + 1,
                            !.callers[c] = [CallerIdle EXCEPT !.pc = "check",
                                                              !.seen = kube.client]]

\* if o.kubeClient != nil { return o.kubeClient, nil }
GetKubeClientCheck(c) ==
    /\ kube.callers[c].pc = "check"
    /\ kube' = IF kube.client # NoClient
               THEN [kube EXCEPT !.callers[c].pc = "return",
                                 !.callers[c].ret = kube.client]
               ELSE [kube EXCEPT !.callers[c].pc = "create"]

\* client, _, err := utils.GetKubeClient(""); if err != nil { return nil, err }
GetKubeClientCreate(c) ==
    /\ kube.callers[c].pc = "create"
    /\ \E ok \in BOOLEAN :
          kube' = IF ok
                  THEN [kube EXCEPT !.attempts = @ + 1,
                                    !.created = Append(@, kube.attempts + 1),
                                    !.callers[c].attempted = TRUE,
                                    !.callers[c].client = kube.attempts + 1,
                                    !.callers[c].pc = "store"]
                  ELSE [kube EXCEPT !.attempts = @ + 1,
                                    !.callers[c].attempted = TRUE,
                                    !.callers[c].err = ErrKube,
                                    !.callers[c].pc = "return"]

\* o.kubeClient = client; return o.kubeClient, nil
GetKubeClientStore(c) ==
    /\ kube.callers[c].pc = "store"
    /\ kube' = [kube EXCEPT !.client = kube.callers[c].client,
                            !.callers[c].ret = kube.callers[c].client,
                            !.callers[c].pc = "return"]

\* the deferred o.kubeMutex.Unlock() and the return to the caller
GetKubeClientReturn(c) ==
    /\ kube.callers[c].pc = "return"
    /\ kube' = [kube EXCEPT !.mutex = NoCaller,
                            !.callers[c].pc = "idle",
                            !.returns = Append(@, [caller |-> c,
                                                   seen |-> kube.callers[c].seen,
                                                   attempted |-> kube.callers[c].attempted,
                                                   client |-> kube.callers[c].ret,
                                                   err |-> kube.callers[c].err,
                                                   handle |-> kube.client])]

GetKubeClient ==
    /\ \E c \in Callers :
          \/ GetKubeClientLock(c)
          \/ GetKubeClientCheck(c)
          \/ GetKubeClientCreate(c)
          \/ GetKubeClientStore(c)
          \/ GetKubeClientReturn(c)
    /\ UNCHANGED <<engineVars, runVars, pullVars, addrVars, discovery, syncCall, installer>>

----------------------------------------------------------------------------
\* Autoscaler.PublishDiscovery: the join token and the service URL in the SSM

\* the call of a sync round that fails, "none" for a round without failure
DiscoveryFailures == {"none", "GetLocalSite", "GetExpandToken", "publishJoinToken",
                      "getServiceURL", "publishServiceURL"}

ErrDiscovery(call) == "failed: " \o call

StopRound_Never(err) == FALSE

\* if err != nil { return trace.Wrap(err) }
StopRound(err) == err # Nil

\* what a call of the round gives back: the values it published and its error
RoundCall(call, fail, publishes) ==
    IF fail = call
    THEN [published |-> <<>>, err |-> ErrDiscovery(call)]
    ELSE [published |-> publishes, err |-> Nil]

\* the round goes on with next unless the call before it failed
RoundThen(before, next) ==
    IF StopRound(before.err)
    THEN before
    ELSE [published |-> before.published \o next.published, err |-> next.err]

syncToken(fail) ==
    RoundThen(RoundCall("GetExpandToken", fail, <<>>),
              RoundCall("publishJoinToken", fail, <<"token">>))

syncMasterService(fail) ==
    RoundThen(RoundCall("getServiceURL", fail, <<>>),
              RoundCall("publishServiceURL", fail, <<"url">>))

syncDiscovery(fail) ==
    RoundThen(RoundThen(RoundCall("GetLocalSite", fail, <<>>), syncToken(fail)),
              syncMasterService(fail))

\* PublishDiscovery not called yet, its context not cancelled
NoDiscovery == [pc |-> "idle", ctxDone |-> FALSE, ticks |-> 0, logged |-> 0, rounds |-> <<>>]

AfterSync_ReturnOnError(err) == IF err = Nil THEN "select" ELSE "returned"

\* after a sync, failed or not, the loop waits in select again
AfterSync(err) == "select"

CtxDone_Never(done) == FALSE

\* case <-ctx.Done() is ready
CtxDone(done) == done

\* one call of syncDiscovery by PublishDiscovery, a failure logged with Errorf
SyncRound(d, fail) ==
    LET r == syncDiscovery(fail)
    IN  [d EXCEPT !.rounds = Append(@, [fail |-> fail, published |-> r.published,
                                        err |-> r.err]),
                  !.logged = IF r.err # Nil THEN @ + 1 ELSE @,
                  !.pc = AfterSync(r.err)]

\* the call of PublishDiscovery up to its loop: the first sync and the ticker
PublishDiscoveryEntry ==
    /\ discovery.pc = "idle"
    /\ \E fail \in DiscoveryFailures : discovery' = SyncRound(discovery, fail)
    /\ UNCHANGED <<engineVars, runVars, pullVars, addrVars, kube, syncCall, installer>>

\* case <-ticker.C
PublishDiscoveryTick ==
    /\ discovery.pc = "select"
    /\ discovery.ticks < MaxTicks
    /\ \E fail \in DiscoveryFailures :
          discovery' = SyncRound([discovery EXCEPT !.ticks = @ + 1], fail)
    /\ UNCHANGED <<engineVars, runVars, pullVars, addrVars, kube, syncCall, installer>>

\* case <-ctx.Done(): return
PublishDiscoveryDone ==
    /\ discovery.pc = "select"
    /\ CtxDone(discovery.ctxDone)
    /\ discovery' = [discovery EXCEPT !.pc = "returned"]
    /\ UNCHANGED <<engineVars, runVars, pullVars, addrVars, kube, syncCall, installer>>

\* the owner of the context cancels it
CancelDiscovery ==
    /\ ~discovery.ctxDone
    /\ discovery.pc # "returned"
    /\ discovery' = [discovery EXCEPT !.ctxDone = TRUE]
    /\ UNCHANGED <<engineVars, runVars, pullVars, addrVars, kube, syncCall, installer>>

----------------------------------------------------------------------------
\* SyncApp: the registries of an application, its base and its dependencies

NoApp == ""

\* the manifests of the application service: base application and dependencies
Manifests ==
    [a \in {"app", "logging", "runtime", "dns"} |->
        IF a = "app" THEN [base |-> "runtime", apps |-> <<"dns", "logging">>]
        ELSE IF a = "logging" THEN [base |-> "runtime", apps |-> <<>>]
        ELSE IF a = "runtime" THEN [base |-> NoApp, apps |-> <<"dns">>]
        ELSE [base |-> NoApp, apps |-> <<>>]]

\* what happens to the calls SyncApp makes for one application: all succeed
\* ("ok"), one of them fails, or the registry directory is missing or empty
SyncOutcomes == {"ok", "GetApp", "TempDir", "Unpack", "no registry", "IsDirectoryEmpty",
                 "empty registry", "Sync"}

ErrSync(call, a) == call \o " failed for " \o a

SubApps_DependenciesFirst(a) ==
    Manifests[a].apps \o (IF Manifests[a].base # NoApp THEN <<Manifests[a].base>> ELSE <<>>)

\* the applications SyncApp recurses into: Manifest.Base(), then Dependencies.Apps
SubApps(a) ==
    (IF Manifests[a].base # NoApp THEN <<Manifests[a].base>> ELSE <<>>) \o Manifests[a].apps

SyncEvent(kind, a, depth, err) == [kind |-> kind, app |-> a, depth |-> depth, err |-> err]

\* SyncApp from the temporary directory on: unpack, look at the registry
\* directory, ImageService.Sync
SyncRegistry(a, depth, outcome) ==
    IF outcome \in {"TempDir", "Unpack", "IsDirectoryEmpty"}
    THEN [trace |-> <<>>, err |-> ErrSync(outcome, a)]
    ELSE IF outcome \in {"no registry", "empty registry"}
    THEN [trace |-> <<>>, err |-> Nil]
    ELSE [trace |-> <<SyncEvent("sync", a, depth, Nil)>>,
          err |-> IF outcome = "Sync" THEN ErrSync(outcome, a) ELSE Nil]

RECURSIVE SyncApp(_, _, _), SyncSubApps(_, _, _, _)

\* the calls of SyncApp for subs[i], subs[i+1], ... up to the first that fails
SyncSubApps(subs, i, depth, outcomes) ==
    IF i > Len(subs)
    THEN [trace |-> <<>>, err |-> Nil]
    ELSE LET r == SyncApp(subs[i], depth, outcomes)
         IN  IF r.err # Nil
             THEN r
             ELSE LET rest == SyncSubApps(subs, i + 1, depth, outcomes)
                  IN  [trace |-> r.trace \o rest.trace, err |-> rest.err]

\* SyncApp(ctx, req) for req.Package = a: what it calls, in order, and its error
SyncApp(a, depth, outcomes) ==
    LET enter == <<SyncEvent("enter", a, depth, Nil)>>
        done(r) == [trace |-> enter \o r.trace \o <<SyncEvent("return", a, depth, r.err)>>,
                    err |-> r.err]
    IN  IF outcomes[a] = "GetApp"
        THEN done([trace |-> <<>>, err |-> ErrSync("GetApp", a)])
        ELSE LET sub == SyncSubApps(SubApps(a), 1, depth + 1, outcomes)
             IN  IF sub.err # Nil
                 THEN done(sub)
                 ELSE LET own == SyncRegistry(a, depth, outcomes[a])
                      IN  done([trace |-> sub.trace \o own.trace, err |-> own.err])

\* SyncApp not called yet
NoSyncCall == [package |-> NoApp, trace |-> <<>>, err |-> Nil]

\* a call of SyncApp from outside
SyncAppCall ==
    /\ syncCall = NoSyncCall
    /\ \E a \in DOMAIN Manifests, outcomes \in [DOMAIN Manifests -> SyncOutcomes] :
          LET r == SyncApp(a, 0, outcomes)
          IN  syncCall' = [package |-> a, trace |-> r.trace, err |-> r.err]
    /\ UNCHANGED <<engineVars, runVars, pullVars, addrVars, kube, discovery, installer>>

----------------------------------------------------------------------------
\* GetAppInstaller: the temporary directory of the installer tarball

\* the calls of GetAppInstaller that may fail, in the order it makes them
InstallerSteps ==
    <<"Check", "TempDir", "NewBolt", "fs.New", "localpack.New", "New", "CreateAccount",
      "GetApp", "yaml.Marshal", "pullDependencies", "getGravityBinaryForApp",
      "addCertificateAuthority", "addTrustedCluster">>

NoDir == 0

ErrInstaller(step) == step \o " failed"

\* ioutil.TempDir has made the directory when the call got past it
TempDirCreated(failAt) == failAt \notin {"Check", "TempDir"}

RemoveOnError_Never(err) == FALSE

\* the deferred function: if err != nil { os.RemoveAll(tempDir) }
RemoveOnError(err) == err # Nil

\* os.RemoveAll(tempDir)
RemoveAll(dirs, dir) == dirs \ {dir}

\* no call made, no directory
NoInstaller == [dirs |-> {}, calls |-> <<>>]

\* one call of GetAppInstaller, failing at failAt; without failure it starts
\* the goroutine that writes the tarball (or the error of the upload script)
\* to the pipe and returns the reader
GetAppInstaller ==
    /\ Len(installer.calls) < MaxInstallerCalls
    /\ \E failAt \in {InstallerSteps[i] : i \in 1..Len(InstallerSteps)} \cup {"none"},
          rendered \in BOOLEAN :
          LET dir == IF TempDirCreated(failAt) THEN Len(installer.calls) + 1 ELSE NoDir
              err == IF failAt = "none" THEN Nil ELSE ErrInstaller(failAt)
              made == IF dir # NoDir THEN installer.dirs \cup {dir} ELSE installer.dirs
              left == IF dir # NoDir /\ RemoveOnError(err) THEN RemoveAll(made, dir) ELSE made
          IN  \* a failed call has no goroutine
              /\ err # Nil => rendered
              /\ installer' =
                    [dirs |-> left,
                     calls |-> Append(installer.calls,
                                      [failAt |-> failAt, dir |-> dir, err |-> err,
                                       reader |-> IF err = Nil THEN "open" ELSE "none",
                                       pipe |-> IF err # Nil THEN "none"
                                                ELSE IF rendered THEN "tarball"
                                                ELSE ErrInstaller("renderUploadScript")])]
    /\ UNCHANGED <<engineVars, runVars, pullVars, addrVars, kube, discovery, syncCall>>

\* CleanupReadCloser.Cleanup of the i-th call
Cleanup(i) == RemoveAll(installer.dirs, installer.calls[i].dir)

\* the caller closes the reader it got, which runs Cleanup
CloseInstaller ==
    /\ \E i \in 1..Len(installer.calls) :
          /\ installer.calls[i].reader = "open"
          /\ installer' = [dirs |-> Cleanup(i),
                           calls |-> [installer.calls EXCEPT ![i].reader = "closed"]]
    /\ UNCHANGED <<engineVars, runVars, pullVars, addrVars, kube, discovery, syncCall>>


InitRest ==
    /\ changelog = <<>>
    /\ operation = [state |-> InProgress, message |-> ""]
    /\ progress = NoProgress
    /\ pc = "idle"
    /\ cmd = NoCmd
    /\ cur = NoPhase
    /\ fsmErr = Nil
    /\ invoked = <<>>
    /\ runStart = plan.state
    /\ completeResult = "none"
    /\ rollbackErrs = {}
    /\ forced = FALSE
    /\ rt = RtIdle
    /\ ctxCancelled = FALSE
    /\ rtChange = PlanChange(NoPhase, Unstarted, Nil)
    /\ warned = FALSE
    /\ runnerCalls = <<>>
    /\ runReturns = <<>>
    /\ localPackages = {}
    /\ localApps = {}
    /\ pullResult = NoPull
    /\ service = NoService
    /\ nodeList = <<>>
    /\ addresses = <<>>
    /\ kube = NoKube
    /\ discovery = NoDiscovery
    /\ syncCall = NoSyncCall
    /\ installer = NoInstaller

Init ==
    /\ plan \in Plans
    /\ InitRest

Next ==
    \/ ExecutePlan
    \/ ExecutePhase
    \/ SelectPhase
    \/ UpdateProgress
    \/ GetExecutor
    \/ StartPhase
    \/ Execute
    \/ FinishPhase
    \/ Complete
    \/ Rollback
    \/ RollbackPhase
    \/ RollbackDone
    \/ Return

Spec == Init /\ [][Next]_vars

InitRetry ==
    /\ Init
    /\ plan = FlatPlan

NextRetry ==
    \/ ChangePhaseStateCall
    \/ RetryAttempt
    \/ RetryBackoff
    \/ CancelCtx

SpecRetry == InitRetry /\ [][NextRetry]_vars

\* every call of the store returns and every backoff timer fires
SpecRetryFair ==
    /\ SpecRetry
    /\ WF_vars(RetryAttempt)
    /\ WF_vars(RetryBackoff)

\* the engine called phase by phase: the pre-exec hook, then GetExecutor
InitEngine ==
    /\ plan \in EnginePlans
    /\ InitRest

NextEngine ==
    \/ PreExec
    \/ UpdateProgress
    \/ GetExecutor

SpecEngine == InitEngine /\ [][NextEngine]_vars

\* RunCommand called by the state machine of another server's phase
NextRun == RunCommand

SpecRun == Init /\ [][NextRun]_vars

\* the pulls of the installer into its local services
NextPull ==
    \/ pullPackages
    \/ pullApplications

SpecPull == Init /\ [][NextPull]_vars

\* the addresses of the services of an application
NextEndpoints == ServiceAddresses

InitEndpoints ==
    /\ Init
    /\ plan = FlatPlan

SpecEndpoints == InitEndpoints /\ [][NextEndpoints]_vars

----------------------------------------------------------------------------
\* The retry wrapper

RetryDone == rt.st = "done"

\* C4: a transient failure never ends the retry loop before its ceiling: the
\* loop returns an error after a connection-refused failure only when the
\* ceiling has elapsed, and when fn fails with connection refused twice and
\* succeeds on the third call the loop returns success after exactly 3 calls
C4_TransientRetried ==
    /\ rt.calls = Len(rt.hist)
    /\ (RetryDone /\ rt.hist # <<>> /\ rt.hist[Len(rt.hist)] = ErrConnRefused)
        => rt.elapsed >= maxRetryElapsedTime
    /\ (rt.st \in {"call", "sleep"} /\ rt.hist # <<>>)
        => rt.hist[Len(rt.hist)] = ErrConnRefused
    /\ (RetryDone /\ Len(rt.hist) >= 3
        /\ SubSeq(rt.hist, 1, 3) = <<ErrConnRefused, ErrConnRefused, Ok>>)
        => (rt.err = Nil /\ rt.calls = 3)
    /\ (RetryDone /\ rt.hist # <<>> /\ rt.hist[Len(rt.hist)] = Ok) => rt.err = Nil

C4_Witness ==
    /\ RetryDone
    /\ rt.hist = <<ErrConnRefused, ErrConnRefused, Ok>>
    /\ rt.err = Nil
    /\ rt.calls = 3

\* C5: an error of fn that is not connection refused ends the retry loop at
\* once: it is the last call of fn and the loop returns that error (after
\* exactly 1 call when the first call fails with it)
C5_PermanentStops ==
    \A i \in 1..Len(rt.hist) :
        ~IsConnectionRefusedError(rt.hist[i]) /\ rt.hist[i] # Ok
            => /\ i = Len(rt.hist)
               /\ rt.calls = i
               /\ RetryDone
               /\ rt.err = rt.hist[i]

C5_Witness ==
    /\ RetryDone
    /\ rt.hist = <<ErrAccessDenied>>
    /\ rt.calls = 1
    /\ rt.err = ErrAccessDenied

\* C6: when the context passed to ChangePhaseState is cancelled while the
\* retry loop waits between two failing calls of the store, the loop makes no
\* further call: it does not leave its wait for another attempt
C6_CancelStopsRetry ==
    [][(ctxCancelled /\ rt.st = "sleep")
        => (rt'.st # "call" /\ rt'.calls = rt.calls)]_vars

----------------------------------------------------------------------------
\* The state machine and the engine

\* the leaves a phase waits for, directly or through other phases
RECURSIVE DepClosure(_, _)
DepClosure(p, S) ==
    LET T == S \cup {l \in PlanLeaves(p) : \E m \in S : DependsOn(p, m, l)}
    IN  IF T = S THEN S ELSE DepClosure(p, T)

Upstream(p, m) == DepClosure(p, {l \in PlanLeaves(p) : DependsOn(p, m, l)})

InvokedPhases == {invoked[i].phase : i \in 1..Len(invoked)}

\* C1: in a run without Force a phase enters InProgress only when every
\* phase in its Requires is Completed in the persisted plan, for "execute
\* all" and for the execution of one phase
C1_RequiresCompleted ==
    [][(plan' # plan /\ ~cmd.force) =>
        \A q \in AllPhases(plan) :
            (/\ PhaseState(plan, q) # InProgress
             /\ PhaseState(plan', q) = InProgress)
            => \A r \in plan.requires[q] : PhaseState(plan, r) = Completed]_vars

C1_Witness ==
    /\ ~cmd.force
    /\ cur # NoPhase
    /\ plan.requires[cur] # {}
    /\ plan.state[cur] = InProgress
    /\ pc = "execute"

\* the phases A and B are Completed and C, which requires both, is Unstarted
C2_Scenario ==
    /\ DOMAIN runStart = {PA, PB, PC}
    /\ runStart[PA] = Completed
    /\ runStart[PB] = Completed
    /\ runStart[PC] = Unstarted

\* C2: "execute all" never invokes Execute of a phase that was Completed when
\* the run started, and no phase twice; with A and B Completed and C
\* Unstarted it invokes the executor of C only, once when the run succeeds
C2_CompletedNotReExecuted ==
    cmd.kind = "all" =>
        /\ \A i \in 1..Len(invoked) : runStart[invoked[i].phase] # Completed
        /\ \A i, j \in 1..Len(invoked) : invoked[i] = invoked[j] => i = j
        /\ C2_Scenario =>
            /\ invoked \in {<<>>, <<[phase |-> PC, op |-> "Execute"]>>}
            /\ (pc = "done" /\ fsmErr = Nil)
                => invoked = <<[phase |-> PC, op |-> "Execute"]>>

C2_Witness ==
    /\ cmd.kind = "all"
    /\ pc = "done"
    /\ C2_Scenario
    /\ fsmErr = Nil
    /\ invoked = <<[phase |-> PC, op |-> "Execute"]>>

\* C3: when Complete has read the plan and the store took its write, the
\* operation is Completed if the plan is completed and else Failed with the
\* message of the error of the run; it is never Completed while a phase is
\* not Completed
C3_CompleteMarksOperation ==
    /\ operation.state = Completed => IsCompleted(plan)
    /\ (pc = "done" /\ cmd.kind \in {"all", "phase"}
        /\ completeResult \in {"ok", "panic"})
        => IF IsCompleted(plan)
           THEN operation.state = Completed
           ELSE operation = [state |-> Failed, message |-> fsmErr]

\* C7: the plan is completed if and only if every leaf phase is Completed,
\* whatever the depth of the sub-phases
C7_IsCompletedIffLeaves ==
    IsCompleted(plan) <=> \A l \in PlanLeaves(plan) : plan.state[l] = Completed

C7_Witness ==
    /\ plan.phases = NestedPlan.phases
    /\ IsCompleted(plan)
    /\ plan.state[PN3] = Completed

\* the state transitions of a phase
Transitions ==
    {<<Unstarted, InProgress>>, <<InProgress, Completed>>,
     <<InProgress, Failed>>, <<Failed, InProgress>>}

\* C8: a phase changes state only along Unstarted to InProgress, InProgress
\* to Completed or Failed and Failed to InProgress; a Completed phase never
\* changes state again
C8_Transitions ==
    [][plan' # plan =>
        \A q \in AllPhases(plan) :
            PhaseState(plan', q) # PhaseState(plan, q)
                => <<PhaseState(plan, q), PhaseState(plan', q)>> \in Transitions]_vars

C8_Witness ==
    /\ pc = "execute"
    /\ runStart[cur] = Failed
    /\ plan.state[cur] = InProgress
    /\ \E l \in DOMAIN plan.state : plan.state[l] = Completed

\* a phase the given phase waits for has failed
FailedUpstream(p, l) == \E m \in Upstream(p, l) : p.state[m] = Failed

C10_RollbackReverseOrder ==
    cmd.kind = "rollback" =>
        /\ \A i, j \in 1..Len(invoked) :
            i < j => invoked[i].phase \notin Upstream(plan, invoked[j].phase)
        /\ (pc = "done" /\ fsmErr = Nil)
            => InvokedPhases = {l \in PlanLeaves(plan) : plan.state[l] = Completed}

C10_Witness ==
    /\ cmd.kind = "rollback"
    /\ pc = "done"
    /\ Len(invoked) >= 2
    /\ invoked[2].phase \in Upstream(plan, invoked[1].phase)
    /\ invoked[1].phase \in rollbackErrs

----------------------------------------------------------------------------
\* The engine called directly

\* the quotient of the integer division of a by b
C12_Quotient(a, b) == CHOOSE q \in 0..a : q * b <= a /\ a < (q + 1) * b

\* C12: the completion UpdateProgress writes for a phase is the quotient of
\* 100 by the number of phases of the plan (by 1 for less than one phase),
\* times the step of the phase: 50 for step 2 of a plan of 4 phases; for the
\* empty plan nothing is divided and nothing is written
C12_CompletionFormula ==
    /\ (pc = "getexec" /\ ~warned) =>
        /\ progress.step = plan.step[cur]
        /\ progress.completion =
              C12_Quotient(100, IF Len(plan.phases) > 1 THEN Len(plan.phases) ELSE 1)
                * plan.step[cur]
        /\ (Len(plan.phases) = 4 /\ plan.step[cur] = 2) => progress.completion = 50
    /\ Len(plan.phases) = 0 => (progress = NoProgress /\ pc # "getexec")

C12_Witness ==
    /\ pc = "getexec"
    /\ ~warned
    /\ Len(plan.phases) = 4
    /\ progress.step = 2
    /\ progress.completion = 50

\* the identifier starts with the prefix of a known kind of phase
C13_KnownKind(id) == id # <<>> /\ id[1] \in {"masters", "nodes"}

\* C13: GetExecutor fails with BadParameter, resolving no executor, for every
\* phase whose identifier does not start with masters or nodes, and resolves
\* the other phases to the sync executor
C13_GetExecutorByPrefix ==
    [][pc = "getexec" =>
        /\ \A id \in AllPhases(plan) \cup {PMissing} :
            configToExecutor(id) = IF C13_KnownKind(id) THEN "sync" ELSE ErrBadParameter
        /\ IF C13_KnownKind(cur)
           THEN pc' = "start" /\ fsmErr' = fsmErr
           ELSE pc' = "complete" /\ fsmErr' = ErrBadParameter]_vars

C13_Witness ==
    /\ pc = "complete"
    /\ cur = PX
    /\ fsmErr = ErrBadParameter
    /\ plan.state[PX] = Unstarted

\* C15: when the write of the progress entry fails UpdateProgress logs it and
\* returns no error, and the state machine goes on to resolve the executor;
\* UpdateProgress returns an error only when the plan cannot be read or the
\* phase is not in the plan, and then it has written nothing
C15_UpdateProgressBestEffort ==
    [][pc = "preexec" =>
        /\ warned' => (pc' = "getexec" /\ fsmErr' = fsmErr)
        /\ pc' = "complete" =>
            /\ ~warned'
            /\ progress' = progress
            /\ fsmErr' \in (StoreResults \ {Nil}) \cup {ErrNotFound}
            /\ fsmErr' = ErrNotFound => cur \notin AllPhases(plan)]_vars

C15_Witness ==
    /\ warned
    /\ pc = "start"
    /\ fsmErr = Nil
    /\ progress = NoProgress

----------------------------------------------------------------------------
\* RunCommand

\* C14: every call of RunCommand calls the runner exactly once, for the
\* server given, with the subcommand (system envars), --phase and the phase
\* identifier of the parameters, followed by --force if and only if Force is
\* set, and returns what the runner returned
C14_RunCommandArgv ==
    /\ Len(runnerCalls) = Len(runReturns)
    /\ \A i \in 1..Len(runReturns) :
        LET r == runReturns[i]
            args == runnerCalls[i].args
        IN  /\ runnerCalls[i].server = r.server
            /\ SubSeq(args, 1, 4) = <<"system", "envars", "--phase", r.params.PhaseID>>
            /\ Len(args) = IF r.params.Force THEN 5 ELSE 4
            /\ r.params.Force => args[5] = "--force"
            /\ r.err = r.runner

C14_Witness ==
    /\ Len(runReturns) = 2
    /\ runReturns[1].params.Force
    /\ runnerCalls[1].args = <<"system", "envars", "--phase", "/masters/node-1", "--force">>
    /\ runReturns[1].err = ErrRun
    /\ ~runReturns[2].params.Force
    /\ runnerCalls[2].args = <<"system", "envars", "--phase", "/nodes/node-2">>
    /\ runReturns[2].err = Nil

----------------------------------------------------------------------------
\* The installer

\* the local service the last pull went to
PulledInto == IF pullResult.fn = "pullPackages" THEN localPackages ELSE localApps

\* C16: a pull never fails because a package or an application exists
\* already: it goes on with the next locator, so that a pull of locators the
\* remote service holds, with no failure of the local service, returns no
\* error and leaves every locator in the local service (pullPackages and
\* pullApplications)
C16_AlreadyExistsIsSuccess ==
    pullResult.fn # "none" =>
        /\ pullResult.err # ErrAlreadyExists
        /\ (/\ pullResult.failAt = 0
            /\ \A i \in 1..Len(pullResult.locators) :
                pullResult.locators[i] \in RemotePackages)
            => /\ pullResult.err = Nil
               /\ \A i \in 1..Len(pullResult.locators) :
                    pullResult.locators[i] \in PulledInto

----------------------------------------------------------------------------
\* The addresses of a service

Range(s) == {s[i] : i \in 1..Len(s)}

\* the addresses of the load balancer, for every port of the service
LoadBalancerAddresses ==
    {FormatAddress(service.ingress[i].hostname, service.ports[j].port) :
        i \in 1..Len(service.ingress), j \in 1..Len(service.ports)}

HasNodePort == \E j \in 1..Len(service.ports) : service.ports[j].nodePort # 0

HasNodeIP(type) ==
    \E i \in 1..Len(nodeList) : \E j \in 1..Len(nodeList[i]) : nodeList[i][j].type = type

\* the addresses of a type of the nodes, for every node port of the service
NodePortAddresses(type) ==
    UNION {{FormatAddress(nodeList[i][j].address, service.ports[k].nodePort) :
                j \in {x \in 1..Len(nodeList[i]) : nodeList[i][x].type = type}} :
            i \in 1..Len(nodeList),
            k \in {x \in 1..Len(service.ports) : service.ports[x].nodePort # 0}}

\* the cluster IP, for every port of the service
ClusterAddresses ==
    {FormatAddress(service.clusterIP, service.ports[j].port) : j \in 1..Len(service.ports)}

----------------------------------------------------------------------------
\* The steps of a phase

\* the pre-exec hook has been called for the phase the run works on: it wrote
\* the progress entry of the phase or logged that it could not
HookDone == warned \/ progress = ProgressEntry(plan, cur)

LastChange == changelog[Len(changelog)]

\* C18: the state machine calls UpdateProgress for a phase before it moves
\* the phase to InProgress, moves it to InProgress before it calls Execute,
\* and after Execute asks for one terminal transition, recorded right after
\* the InProgress one: Completed when Execute succeeded, Failed with its
\* error when it failed; when GetExecutor fails the phase is never moved
C18_PhaseStepOrder ==
    /\ pc \in {"getexec", "start", "execute", "finish"} => HookDone
    /\ pc \in {"preexec", "getexec", "start"} =>
        /\ plan.state[cur] \in {Unstarted, Failed}
        /\ cur \notin InvokedPhases
    /\ pc \in {"execute", "finish"} =>
        /\ plan.state[cur] = InProgress
        /\ LastChange = PlanChange(cur, InProgress, Nil)
        /\ (pc = "execute") = (cur \notin InvokedPhases)
        /\ pc = "finish" => invoked[Len(invoked)] = [phase |-> cur, op |-> "Execute"]
    /\ \A i \in 1..Len(changelog) :
        changelog[i].newState \in {Completed, Failed} =>
            /\ i > 1
            /\ changelog[i - 1].phaseID = changelog[i].phaseID
            /\ changelog[i - 1].newState = InProgress
            /\ changelog[i].error = IF changelog[i].newState = Completed
                                    THEN Nil ELSE ErrExecute
    /\ (pc = "select" /\ cur # NoPhase) =>
        /\ fsmErr = Nil
        /\ LastChange = PlanChange(cur, Completed, Nil)
    /\ (pc \in {"complete", "done"} /\ cmd.kind \in {"all", "phase"}
        /\ cur \in InvokedPhases) =>
        /\ fsmErr # Nil
        /\ IF fsmErr = ErrExecute
           THEN LastChange = PlanChange(cur, Failed, ErrExecute)
           ELSE LastChange = PlanChange(cur, InProgress, Nil)
    /\ (pc \in {"complete", "done"} /\ fsmErr = ErrBadParameter) =>
        /\ plan.state[cur] = runStart[cur]
        /\ cur \notin InvokedPhases
    /\ \A i \in 1..Len(changelog) :
        configToExecutor(changelog[i].phaseID) # ErrBadParameter

C18_Witness ==
    /\ pc = "done"
    /\ cmd.kind = "all"
    /\ Len(invoked) = 2
    /\ fsmErr = ErrExecute
    /\ Len(changelog) = 4
    /\ LastChange = PlanChange(cur, Failed, ErrExecute)
    /\ changelog[2].newState = Completed
    /\ warned

----------------------------------------------------------------------------
\* The change log and the end of the retry loop

\* the call of ChangePhaseState in flight returns in this step
RetryReturns == rt.st # "done" /\ rt'.st = "done"

\* C19: a call of ChangePhaseState that returns without error has appended
\* exactly one record to the change log, with the operation key of the
\* engine and the phase and new state of the change; no step changes or
\* removes a record, and a call that returns an error has appended nothing
C19_ChangelogAppendOnly ==
    [][/\ Len(changelog') >= Len(changelog)
       /\ SubSeq(changelog', 1, Len(changelog)) = changelog
       /\ IF RetryReturns /\ rt'.err = Nil
          THEN /\ Len(changelog') = Len(changelog) + 1
               /\ LET rec == changelog'[Len(changelog')]
                  IN  /\ rec.clusterName = OperationKey.siteDomain
                      /\ rec.operationID = OperationKey.operationID
                      /\ rec.phaseID = rtChange.phaseID
                      /\ rec.newState = rtChange.newState
                      /\ <<plan.state[rec.phaseID], rec.newState>> \in Transitions
                      /\ plan'.state[rec.phaseID] = rec.newState
          ELSE changelog' = changelog]_vars

C19_Witness ==
    /\ Len(changelog) = 2
    /\ changelog[1].phaseID = changelog[2].phaseID
    /\ changelog[2].newState = Failed
    /\ RetryDone
    /\ rt.calls = 2
    /\ rt.err = ErrAccessDenied

\* no call of the store failed but with connection refused
OnlyTransient ==
    /\ rt.hist # <<>>
    /\ \A i \in 1..Len(rt.hist) : rt.hist[i] = ErrConnRefused

\* C20: the retry loop always ends: no call of the store is made once the 5
\* minutes of the ceiling have elapsed, and a loop whose every call fails
\* with connection refused ends, when the ceiling has elapsed, with that
\* error
C20_RetryTerminates ==
    /\ [](rt.st = "call" => rt.elapsed < 5)
    /\ []((RetryDone /\ OnlyTransient) => (rt.err = ErrConnRefused /\ rt.elapsed >= 5))
    /\ (rt.st \in {"call", "sleep"}) ~> RetryDone

C20_Witness ==
    /\ RetryDone
    /\ OnlyTransient
    /\ Len(rt.hist) >= 3
    /\ rt.elapsed = 5
    /\ rt.err = ErrConnRefused

NextKube == GetKubeClient

SpecKube == Init /\ [][NextKube]_vars

NextDiscovery ==
    \/ PublishDiscoveryEntry
    \/ PublishDiscoveryTick
    \/ PublishDiscoveryDone
    \/ CancelDiscovery

SpecDiscovery == Init /\ [][NextDiscovery]_vars

\* select takes a ready case: a cancelled context is not passed over for ever
SpecDiscoveryFair == SpecDiscovery /\ WF_vars(PublishDiscoveryDone)

NextSync == SyncAppCall

SpecSync == Init /\ [][NextSync]_vars

NextInstaller ==
    \/ GetAppInstaller
    \/ CloseInstaller

SpecInstaller == Init /\ [][NextInstaller]_vars

----------------------------------------------------------------------------
\* Complete and the completion of the progress entry

\* C24: Complete ends normally whatever the plan and the error of the run,
\* also for no error and a plan that is not completed, as after the execution
\* of one phase of several: it never crashes, and marks the operation Failed
\* there when the store takes the write
C24_CompleteNeverCrashes ==
    /\ completeResult # "panic"
    /\ (pc = "done" /\ completeResult = "ok" /\ ~IsCompleted(plan))
        => operation.state = Failed

\* C28: the completion UpdateProgress writes lies between 0 and 100, for
\* every plan and every phase of it, top-level or nested
C28_CompletionInRange ==
    /\ progress.completion >= 0
    /\ progress.completion <= 100

----------------------------------------------------------------------------
\* GetKubeClient

\* C21: the client is created once at most, whatever the interleaving of the
\* callers, while creation succeeds; a caller that comes after the creation
\* gets that client without another attempt; a failed creation leaves the
\* handle unset and the next call attempts the creation again
C21_InitializeOnce ==
    /\ Len(kube.created) <= 1
    /\ kube.client # NoClient => kube.created = <<kube.client>>
    /\ \A i \in 1..Len(kube.returns) :
          LET r == kube.returns[i]
          IN  /\ r.seen # NoClient
                   => r.client = r.seen /\ r.err = Nil /\ ~r.attempted
              /\ r.err = Nil => r.client # NoClient /\ kube.created = <<r.client>>
              /\ r.err # Nil => r.client = NoClient /\ r.handle = NoClient
              /\ r.seen = NoClient => r.attempted

C21_Witness ==
    /\ Len(kube.returns) = 3
    /\ kube.returns[1].err # Nil
    /\ kube.returns[2].attempted /\ kube.returns[2].err = Nil
    /\ kube.returns[3].seen # NoClient
    /\ kube.returns[3].caller # kube.returns[2].caller

----------------------------------------------------------------------------
\* PublishDiscovery

FailedRounds(rounds) == {i \in 1..Len(rounds) : rounds[i].err # Nil}

\* C22: PublishDiscovery syncs once on entry and once more for every tick, it
\* returns only when its context is cancelled, and a failed sync, the first
\* or a later one, is logged and leaves the loop waiting for the next tick
C22_SyncPerTick ==
    /\ discovery.pc # "idle" => Len(discovery.rounds) = 1 + discovery.ticks
    /\ discovery.pc = "idle" => discovery.rounds = <<>>
    /\ discovery.pc = "returned" => discovery.ctxDone
    /\ discovery.logged = Cardinality(FailedRounds(discovery.rounds))
    /\ (discovery.rounds # <<>> /\ ~discovery.ctxDone) => discovery.pc = "select"

C22_Witness ==
    /\ discovery.pc = "select"
    /\ ~discovery.ctxDone
    /\ Len(discovery.rounds) = 3
    /\ discovery.rounds[1].err # Nil
    /\ discovery.rounds[2].err # Nil
    /\ discovery.rounds[3].err = Nil

\* C23: once the context is cancelled a running PublishDiscovery returns in
\* the end, and after it has returned nothing more is published
C23_ReturnsAfterCancel ==
    /\ (discovery.ctxDone /\ discovery.pc # "idle") ~> discovery.pc = "returned"
    /\ [][discovery.pc = "returned" => discovery'.rounds = discovery.rounds]_vars

C23_Witness ==
    /\ discovery.pc = "returned"
    /\ discovery.ctxDone
    /\ Len(discovery.rounds) = 2
    /\ discovery.rounds[2].published = <<"token", "url">>

\* C25: a sync round publishes the join token before the service URL and
\* stops at its first failure: no service URL in a round in which the local
\* cluster or the expand token could not be fetched or the token not published
C25_TokenBeforeURL ==
    \A i \in 1..Len(discovery.rounds) :
        LET r == discovery.rounds[i]
        IN  /\ r.published \in {<<>>, <<"token">>, <<"token", "url">>}
            /\ r.fail \in {"GetLocalSite", "GetExpandToken", "publishJoinToken"}
                 => r.published = <<>> /\ r.err # Nil
            /\ r.fail \in {"getServiceURL", "publishServiceURL"}
                 => r.published = <<"token">> /\ r.err # Nil
            /\ r.fail = "none" => r.published = <<"token", "url">> /\ r.err = Nil

C25_Witness ==
    /\ Len(discovery.rounds) = 3
    /\ discovery.rounds[1].fail = "publishJoinToken"
    /\ discovery.rounds[2].fail = "getServiceURL"
    /\ discovery.rounds[3].fail = "none"

----------------------------------------------------------------------------
\* SyncApp

\* the base application, then the dependencies in the order of the manifest
BaseThenDependencies(a) ==
    IF Manifests[a].base # NoApp
    THEN <<Manifests[a].base>> \o Manifests[a].apps
    ELSE Manifests[a].apps

\* where the call that event i of the trace belongs to was entered
Entered(trace, i) ==
    CHOOSE e \in 1..i :
        /\ trace[e].kind = "enter"
        /\ trace[e].depth = trace[i].depth
        /\ \A k \in (e + 1)..i : ~(trace[k].kind = "enter" /\ trace[k].depth = trace[i].depth)

\* the calls of SyncApp one level down that returned between e and i
SubReturns(trace, e, i) ==
    SelectSeq(SubSeq(trace, e, i),
              LAMBDA ev : ev.kind = "return" /\ ev.depth = trace[i].depth + 1)

\* C26: ImageService.Sync is called for an application only after SyncApp
\* has returned without error for its base and for each of its dependencies,
\* in this order; the first sub-sync that fails ends the call with an error
\* and the application's own registry is not synced
C26_SyncPostOrder ==
    LET trace == syncCall.trace
    IN  \A i \in 1..Len(trace) :
            /\ trace[i].kind = "sync" =>
                  LET subs == SubReturns(trace, Entered(trace, i), i)
                  IN  /\ [k \in 1..Len(subs) |-> subs[k].app]
                           = BaseThenDependencies(trace[i].app)
                      /\ \A k \in 1..Len(subs) : subs[k].err = Nil
            /\ (trace[i].kind = "return" /\ trace[i].err # Nil /\ trace[i].depth > 0) =>
                  /\ trace[i + 1].kind = "return"
                  /\ trace[i + 1].depth = trace[i].depth - 1
                  /\ trace[i + 1].err = trace[i].err
                  /\ \A k \in Entered(trace, i + 1)..(i + 1) :
                        ~(trace[k].kind = "sync" /\ trace[k].depth = trace[i + 1].depth)

C26_Witness ==
    /\ syncCall.package = "app"
    /\ syncCall.err # Nil
    /\ \E i, j \in 1..Len(syncCall.trace) :
          /\ i < j
          /\ syncCall.trace[i] = SyncEvent("sync", "runtime", 1, Nil)
          /\ syncCall.trace[j] = SyncEvent("return", "logging", 1, ErrSync("Sync", "logging"))

----------------------------------------------------------------------------
\* GetAppInstaller

\* the directories of the readers that were returned and are not closed yet
OpenReaderDirs ==
    {installer.calls[i].dir : i \in {k \in 1..Len(installer.calls) :
                                        installer.calls[k].reader = "open"}}

\* C27: GetAppInstaller leaves no temporary directory behind: a call that
\* returns an error after it made the directory has removed it, and the
\* directory of a successful call exists while its reader is open and is
\* removed when the reader is closed
C27_NoTempDirLeak ==
    /\ installer.dirs = OpenReaderDirs
    /\ \A i \in 1..Len(installer.calls) :
          /\ installer.calls[i].err # Nil <=> installer.calls[i].reader = "none"
          /\ installer.calls[i].err = Nil => installer.calls[i].dir # NoDir

C27_Witness ==
    /\ Len(installer.calls) = 2
    /\ installer.calls[1].failAt = "pullDependencies"
    /\ installer.calls[1].dir # NoDir
    /\ installer.calls[2].reader = "closed"
    /\ installer.dirs = {}

====
